---- MODULE Spec2Model ----
(***************************************************************************)
(* Model of the channel registry of tj_log.c: the chain of output          *)
(* channels rooted at tj_log_channelStack, the tj_log_atexit flag, the     *)
(* atexit registrations, and the operations that create, add, remove,      *)
(* finalize and dispatch to channels.                                      *)
(*                                                                         *)
(* A channel is identified by its address.  Addresses 1 and 2 are the two  *)
(* statically allocated built-in channels; the others are the addresses    *)
(* malloc can hand out.  A freed address can be handed out again.          *)
(***************************************************************************)
EXTENDS Integers, Sequences, FiniteSets, TLC

\* ------------------------------------------------------------------ bounds
MaxHeap == 2      \* number of distinct addresses malloc can return
MaxHooks == 2     \* atexit registrations the model lets accumulate
MaxFin == 2       \* the per-channel finalize counter saturates here
MaxOps == 5       \* API calls the program makes before it exits

\* --------------------------------------------------------------- addresses
Null == 0         \* the null pointer
Console == 1      \* &tj_log_fprintfChannel
Logcat == 2       \* &tj_log_logcatChannel (only in a build with __ANDROID__)

Static == {Console, Logcat}
Heap == 3..(2 + MaxHeap)
Channels == Static \cup Heap
Ptr == Channels \cup {Null}

\* A while loop over the chain that has made more steps than there are
\* channels has visited a channel twice: the chain is cyclic and the loop
\* never ends.
MaxWalk == Cardinality(Channels) + 1

\* tj_log_level: the index of the level in tj_log_level_labels
TJ_LOG_LEVEL_CRITICAL == 3
TJ_LOG_LEVEL_OUTPUT == 4
AllLevels == 0..4
Levels == {TJ_LOG_LEVEL_CRITICAL, TJ_LOG_LEVEL_OUTPUT}   \* levels Log is called with
Msgs == {"m1", "m2"}          \* rendered message strings

VARIABLES
  android,          \* build configuration: __ANDROID__ defined
  head,             \* tj_log_channelStack
  m_next,           \* x->m_next
  m_allocated,      \* x->m_allocated
  finalize,         \* x->finalize != 0
  live,             \* heap address currently allocated (malloc'ed, not freed)
  tj_log_atexit,    \* the exit-armed flag
  hooks,            \* atexit registrations of tj_log_finalize not yet run
  phase,            \* "running", "exiting", "exited", "crashed", "hung"
  finCount,         \* history: times the finalize function of the channel
                    \* (current allocation) has been invoked
  bufLive,          \* Message Buffers created by tj_log_log and not released
  nops,             \* history: number of API calls made so far
  added,            \* history, per channel: "none" (no such channel),
                    \* "never" (created, never added), "in" (added / initially
                    \* present and not removed since), "removed"
  last,             \* history: the last operation and what it did
  sink              \* the console sink's data handle and the last call of a
                    \* built-in sink function with what it wrote

vars == <<android, head, m_next, m_allocated, finalize, live,
          tj_log_atexit, hooks, phase, finCount, bufLive, nops, added, last,
          sink>>

\* ------------------------------------------------------------ chain walks
\* The channels met following m_next from c, up to fuel of them.
RECURSIVE Walk(_, _, _)
Walk(nx, c, fuel) ==
  IF c = Null \/ fuel = 0 THEN <<>>
  ELSE <<c>> \o Walk(nx, nx[c], fuel - 1)

Chain(h, nx) == Walk(nx, h, MaxWalk)

\* ------------------------------------------------- the machine as a record
\* The operations are written as functions on a record of the program state
\* plus the effects of the running operation:
\*   finalized  channels tj_log_outchannel_finalize was called on
\*   fin        channels whose finalize function was invoked
\*   freed      addresses passed to free
\*   logged     invocations of log functions
\*   reports    failure reports made with TJ_ERROR
\*   entries    times tj_log_log was entered
\*   buf        the local msg of the running tj_log_log is not null
\*   bufCreated, bufFails, bufReleased   Message Buffers created, failed
\*              creations, and releases
\*   result     the value returned (-1: nothing returned)
\*   ub         an access through a freed address, or a double free, happened
\*   strict     how this run resolves such an access: TRUE, the process dies
\*              at the access; FALSE, the access reads or writes whatever the
\*              freed memory holds and execution goes on
\*   crashed, hung   the operation died / entered an endless loop
Machine ==
  [head |-> head, m_next |-> m_next, m_allocated |-> m_allocated,
   finalize |-> finalize, live |-> live,
   atexit |-> tj_log_atexit, hooks |-> hooks, finCount |-> finCount,
   bufLive |-> bufLive,
   finalized |-> <<>>, fin |-> <<>>, freed |-> <<>>, logged |-> <<>>,
   reports |-> 0, entries |-> 0, buf |-> FALSE,
   bufCreated |-> 0, bufFails |-> 0, bufReleased |-> 0, result |-> -1,
   ub |-> FALSE, strict |-> FALSE, crashed |-> FALSE, hung |-> FALSE]

Stopped(st) == st.crashed \/ st.hung

\* A dereference of x (x->field).  Static channels are always valid; a heap
\* address is valid while allocated.
Deref(st, x) ==
  IF x \in Heap /\ ~st.live[x]
  THEN [st EXCEPT !.ub = TRUE, !.crashed = st.strict]
  ELSE st

\* free(x).  The allocator reuses the first bytes of a freed block for its
\* own bookkeeping, which overlays m_allocated (the first field of the
\* struct): after the free that field holds s[x], a value the caller does
\* not control.  The other fields keep their last contents.
Free(st, x, s) ==
  LET st1 == IF ~st.live[x]
             THEN [st EXCEPT !.ub = TRUE, !.crashed = st.strict]
             ELSE st
  IN IF st1.crashed THEN st1
     ELSE [st1 EXCEPT !.freed = Append(@, x),
                      !.live[x] = FALSE,
                      !.m_allocated[x] = s[x]]

\* tj_log_outchannel_finalize freeing x without looking at m_allocated
outchannel_finalize_freeall(st0, x, s) ==
  LET st == Deref(st0, x) IN
  IF st.crashed THEN st
  ELSE
    LET s1 == [st EXCEPT !.finalized = Append(@, x)]
        s2 == IF s1.finalize[x]
              THEN [s1 EXCEPT !.fin = Append(@, x),
                              !.finCount[x] = IF @ < MaxFin THEN @ + 1 ELSE @]
              ELSE s1
    IN [s2 EXCEPT !.freed = Append(@, x)]

\* tj_log_outchannel_finalize(x)
outchannel_finalize(st0, x, s) ==
  LET st == Deref(st0, x) IN
  IF st.crashed THEN st
  ELSE
    LET s1 == [st EXCEPT !.finalized = Append(@, x)]
        s2 == IF s1.finalize[x]
              THEN [s1 EXCEPT !.fin = Append(@, x),
                              !.finCount[x] = IF @ < MaxFin THEN @ + 1 ELSE @]
              ELSE s1
    IN IF s2.m_allocated[x] THEN Free(s2, x, s) ELSE s2

\* The scan of tj_log_removeOutChannel:
\*   while (top != 0 && top != out) { prev = top; top = top->m_next; }
RECURSIVE Scan(_, _, _, _, _)
Scan(st, top, prev, out, fuel) ==
  IF top = Null \/ top = out THEN [st |-> st, top |-> top, prev |-> prev]
  ELSE IF fuel = 0
  THEN [st |-> [st EXCEPT !.hung = TRUE], top |-> top, prev |-> prev]
  ELSE LET st1 == Deref(st, top) IN
       IF st1.crashed THEN [st |-> st1, top |-> top, prev |-> prev]
       ELSE Scan(st1, st1.m_next[top], top, out, fuel - 1)

\* tj_log_removeOutChannel(out)
removeOutChannel(st, out, s) ==
  LET r == Scan(st, st.head, Null, out, MaxWalk) IN
  IF Stopped(r.st) \/ r.top = Null THEN r.st
  ELSE
    LET st1 == IF r.prev # Null
               THEN LET a == Deref(Deref(r.st, r.top), r.prev) IN
                    IF a.crashed THEN a
                    ELSE [a EXCEPT !.m_next[r.prev] = a.m_next[r.top]]
               ELSE r.st
    IN IF st1.crashed THEN st1 ELSE outchannel_finalize(st1, out, s)

\* The loop of tj_log_finalize:
\*   while (out != 0) { next = out->m_next; finalize(out); out = next; }
RECURSIVE FinalizeLoop(_, _, _, _)
FinalizeLoop(st, out, fuel, s) ==
  IF out = Null THEN st
  ELSE IF fuel = 0 THEN [st EXCEPT !.hung = TRUE]
  ELSE LET st1 == Deref(st, out) IN
       IF st1.crashed THEN st1
       ELSE LET next == st1.m_next[out]
                st2 == outchannel_finalize(st1, out, s)
            IN IF st2.crashed THEN st2
               ELSE FinalizeLoop(st2, next, fuel - 1, s)

\* tj_log_finalize()
tj_log_finalize(st, s) ==
  LET r == FinalizeLoop(st, st.head, MaxWalk, s) IN
  IF Stopped(r) THEN r ELSE [r EXCEPT !.atexit = FALSE]

\* The dispatch loop of tj_log_log:
\*   while (out != 0) { out->log(out->m_data, ...); out = out->m_next; }
RECURSIVE LogLoop(_, _, _, _, _)
LogLoop(st, out, level, msg, fuel) ==
  IF out = Null THEN st
  ELSE IF fuel = 0 THEN [st EXCEPT !.hung = TRUE]
  ELSE LET st1 == Deref(st, out) IN
       IF st1.crashed THEN st1
       ELSE LogLoop([st1 EXCEPT !.logged = Append(@,
                        [ch |-> out, level |-> level, msg |-> msg])],
                    st1.m_next[out], level, msg, fuel - 1)

\* msg = tj_buffer_create(128): a fresh Message Buffer, or null when memory
\* cannot be obtained (ok = FALSE)
tj_buffer_create(st, ok) ==
  IF ok
  THEN [st EXCEPT !.buf = TRUE, !.bufCreated = @ + 1, !.bufLive = @ + 1]
  ELSE [st EXCEPT !.buf = FALSE, !.bufFails = @ + 1]

\* tj_buffer_finalize(msg): releases the Message Buffer
tj_buffer_finalize(st) ==
  [st EXCEPT !.buf = FALSE, !.bufReleased = @ + 1, !.bufLive = @ - 1]

\* TJ_ERROR(...): reports the failure without dispatching to the channels
TJ_ERROR(st) == [st EXCEPT !.reports = @ + 1]

\* tj_log_log without the goto done of the failure path
tj_log_log_nogoto(st, level, msg, ok) ==
  LET s0 == [st EXCEPT !.entries = @ + 1]
      s1 == tj_buffer_create(s0, ok)
      s2 == LogLoop(IF ~s1.buf THEN TJ_ERROR(s1) ELSE s1,
                    s1.head, level, msg, MaxWalk)
  IN IF Stopped(s2) THEN s2
     ELSE IF s2.buf THEN tj_buffer_finalize(s2) ELSE s2

\* tj_log_log returning without tj_buffer_finalize
tj_log_log_leak(st, level, msg, ok) ==
  LET s0 == [st EXCEPT !.entries = @ + 1]
      s1 == tj_buffer_create(s0, ok)
  IN IF ~s1.buf THEN TJ_ERROR(s1)
     ELSE LogLoop(s1, s1.head, level, msg, MaxWalk)

\* tj_log_log(level, ..., m, ...), the format rendering to msg; ok: the
\* creation of the Message Buffer succeeds
tj_log_log(st, level, msg, ok) ==
  LET s0 == [st EXCEPT !.entries = @ + 1]
      s1 == tj_buffer_create(s0, ok)
      s2 == IF ~s1.buf
            THEN TJ_ERROR(s1)                                \* goto done
            ELSE LogLoop(s1, s1.head, level, msg, MaxWalk)
  IN IF Stopped(s2) THEN s2
     ELSE IF s2.buf THEN tj_buffer_finalize(s2) ELSE s2     \* done:

\* TJ_LOG_CRITICAL(component, m): a message at TJ_LOG_LEVEL_CRITICAL through
\* tj_log_log
TJ_LOG_CRITICAL(st, msg, ok) == tj_log_log(st, TJ_LOG_LEVEL_CRITICAL, msg, ok)

\* tj_log_outchannel_create(data, log, finalize); x: the address malloc
\* returns, Null when it fails; f: the finalize argument is not null; ok: the
\* Message Buffer of the failure message can be created
outchannel_create(st, x, f, ok) ==
  IF x = Null
  THEN LET s1 == TJ_LOG_CRITICAL(st, "nomem", ok) IN
       IF Stopped(s1) THEN s1 ELSE [s1 EXCEPT !.result = Null]
  ELSE [st EXCEPT !.live[x] = TRUE,
                  !.m_allocated[x] = TRUE,
                  !.finalize[x] = f,
                  !.m_next[x] = Null,
                  !.finCount[x] = 0,
                  !.result = x]

\* tj_log_addOutChannel without out->m_next = tj_log_channelStack
addOutChannel_nolink(st, out) ==
  LET st1 == Deref(st, out) IN
  IF st1.crashed THEN st1
  ELSE LET st2 == [st1 EXCEPT !.head = out, !.result = 0] IN
       IF ~st2.atexit
       THEN [st2 EXCEPT !.hooks = @ + 1, !.atexit = TRUE]
       ELSE st2

\* tj_log_addOutChannel(out)
addOutChannel(st, out) ==
  LET st1 == Deref(st, out) IN
  IF st1.crashed THEN st1
  ELSE LET st2 == [st1 EXCEPT !.m_next[out] = st1.head, !.head = out,
                              !.result = 0] IN
       IF ~st2.atexit
       THEN [st2 EXCEPT !.hooks = @ + 1, !.atexit = TRUE]
       ELSE st2

\* ---------------------------------------------------------- built-in sinks
\* What a sink function is called with.  data: the handle is not null;
\* error: Null or an error object.
Components == {"X", "net"}
Files == {"a.c"}
Funcs == {"f"}
Lines == {42}
Errors == {Null, 1, 2}
SinkMsgs == {"hello", "boom"}
SinkArgs ==
  [data : BOOLEAN, level : AllLevels, component : Components, file : Files,
   func : Funcs, line : Lines, error : Errors, msg : SinkMsgs]
NoArgs ==
  [data |-> FALSE, level |-> 0, component |-> "X", file |-> "a.c",
   func |-> "f", line |-> 42, error |-> Null, msg |-> "hello"]

\* tj_log_level_labels[level]
tj_log_level_labels(level) ==
  <<"VERBOSE", "LOGIC", "COMPONENT", "CRITICAL", "OUTPUT">>[level + 1]

\* tj_error_getMessage(error)
tj_error_getMessage(error) == IF error = 1 THEN "oops" ELSE "eio"

\* the result of strftime(date, 20, "%Y/%m/%d %H:%M:%S", localtime)
Date == "date"

\* tj_log_fprintfLog writing the component also at level OUTPUT
tj_log_fprintfLog_component(a) ==
  LET out == <<"FILE", IF ~a.data THEN "TJ_LOG_STREAM" ELSE "data">>
      line1 ==
        IF a.level # TJ_LOG_LEVEL_CRITICAL
        THEN [to |-> out,
              text |-> Date \o " " \o a.component \o " " \o a.msg \o "\n"]
        ELSE [to |-> out,
              text |-> "[" \o tj_log_level_labels(a.level) \o "] " \o Date
                       \o " " \o a.component \o " " \o a.file \o ":"
                       \o a.func \o ":" \o ToString(a.line) \o ": "
                       \o a.msg \o "\n"]
  IN IF a.error # Null
     THEN <<line1, [to |-> out,
                    text |-> tj_error_getMessage(a.error) \o "\n"]>>
     ELSE <<line1>>

\* tj_log_fprintfLog writing the error only at level CRITICAL
tj_log_fprintfLog_noerror(a) ==
  LET out == <<"FILE", IF ~a.data THEN "TJ_LOG_STREAM" ELSE "data">>
      line1 ==
        IF a.level = TJ_LOG_LEVEL_OUTPUT
        THEN [to |-> out, text |-> Date \o " " \o a.msg \o "\n"]
        ELSE IF a.level # TJ_LOG_LEVEL_CRITICAL
        THEN [to |-> out,
              text |-> Date \o " " \o a.component \o " " \o a.msg \o "\n"]
        ELSE [to |-> out,
              text |-> "[" \o tj_log_level_labels(a.level) \o "] " \o Date
                       \o " " \o a.component \o " " \o a.file \o ":"
                       \o a.func \o ":" \o ToString(a.line) \o ": "
                       \o a.msg \o "\n"]
  IN IF a.error # Null /\ a.level = TJ_LOG_LEVEL_CRITICAL
     THEN <<line1, [to |-> out,
                    text |-> tj_error_getMessage(a.error) \o "\n"]>>
     ELSE <<line1>>

\* tj_log_fprintfLog(data, level, component, file, func, line, error, msg):
\* what each fprintf call it makes writes, in order
tj_log_fprintfLog(a) ==
  LET out == <<"FILE", IF ~a.data THEN "TJ_LOG_STREAM" ELSE "data">>
      line1 ==
        IF a.level = TJ_LOG_LEVEL_OUTPUT
        THEN [to |-> out, text |-> Date \o " " \o a.msg \o "\n"]
        ELSE IF a.level # TJ_LOG_LEVEL_CRITICAL
        THEN [to |-> out,
              text |-> Date \o " " \o a.component \o " " \o a.msg \o "\n"]
        ELSE [to |-> out,
              text |-> "[" \o tj_log_level_labels(a.level) \o "] " \o Date
                       \o " " \o a.component \o " " \o a.file \o ":"
                       \o a.func \o ":" \o ToString(a.line) \o ": "
                       \o a.msg \o "\n"]
  IN IF a.error # Null
     THEN <<line1, [to |-> out,
                    text |-> tj_error_getMessage(a.error) \o "\n"]>>
     ELSE <<line1>>

\* tj_log_fprintfLogFinalize(data): the fclose calls it makes
tj_log_fprintfLogFinalize(data) ==
  IF data THEN <<[to |-> <<"FILE", "data">>, text |-> "fclose"]>> ELSE <<>>

\* the switch of tj_log_logcatLog: level to android_LogPriority
LogcatPriority(level) ==
  CASE level = 0 -> "ANDROID_LOG_VERBOSE"
    [] level = 1 -> "ANDROID_LOG_DEBUG"
    [] level = 2 -> "ANDROID_LOG_INFO"
    [] level = TJ_LOG_LEVEL_CRITICAL -> "ANDROID_LOG_ERROR"
    [] level = TJ_LOG_LEVEL_OUTPUT -> "ANDROID_LOG_INFO"
    [] OTHER -> "ANDROID_LOG_INFO"

\* tj_log_logcatLog(data, level, component, file, func, line, error, msg):
\* what each __android_log_print call it makes writes, in order
tj_log_logcatLog(a) ==
  LET pri == LogcatPriority(a.level)
      line1 ==
        IF a.level # TJ_LOG_LEVEL_CRITICAL
        THEN [to |-> <<pri, a.component>>, text |-> a.msg]
        ELSE [to |-> <<pri, a.component>>,
              text |-> a.file \o ":" \o a.func \o ":" \o ToString(a.line)
                       \o ": " \o a.msg]
  IN IF a.error # Null
     THEN <<line1, [to |-> <<pri, a.component>>,
                    text |-> tj_error_getMessage(a.error)]>>
     ELSE <<line1>>

RegistryVars ==
  <<android, head, m_next, m_allocated, finalize, live, tj_log_atexit, hooks,
    phase, finCount, bufLive, nops, added, last>>

\* tj_log_setData(&tj_log_fprintfChannel, data)
SetData(d) ==
  /\ sink.data # d
  /\ sink' = [sink EXCEPT !.data = d, !.op = "setData", !.out = <<>>]
  /\ UNCHANGED RegistryVars

\* the dispatch loop calls the console channel's log function with its
\* data handle
ConsoleLog(a) ==
  /\ a.data = sink.data
  /\ sink' = [sink EXCEPT !.op = "fprintfLog", !.in = a,
                          !.out = tj_log_fprintfLog(a)]
  /\ UNCHANGED RegistryVars

\* the dispatch loop calls the logcat channel's log function (its data
\* handle is 0)
LogcatLog(a) ==
  /\ android
  /\ ~a.data
  /\ sink' = [sink EXCEPT !.op = "logcatLog", !.in = a,
                          !.out = tj_log_logcatLog(a)]
  /\ UNCHANGED RegistryVars

\* tj_log_outchannel_finalize calls the console channel's finalize function
ConsoleFinalize ==
  /\ sink.op # "fprintfLogFinalize"
  /\ sink' = [sink EXCEPT !.op = "fprintfLogFinalize",
                          !.out = tj_log_fprintfLogFinalize(sink.data)]
  /\ UNCHANGED RegistryVars

SinkNext ==
  \/ \E d \in BOOLEAN : SetData(d)
  \/ \E a \in SinkArgs : ConsoleLog(a)
  \/ \E a \in SinkArgs : LogcatLog(a)
  \/ ConsoleFinalize

\* ------------------------------------------------------------- bookkeeping
Outcome(st) == IF st.crashed THEN "crashed" ELSE IF st.hung THEN "hung" ELSE "ok"

\* What the history variable keeps of the state an operation started in.
Pre(arg) ==
  [head |-> head, m_next |-> m_next, atexit |-> tj_log_atexit,
   hooks |-> hooks, added |-> IF arg = Null THEN "none" ELSE added[arg],
   live |-> live, finalize |-> finalize, m_allocated |-> m_allocated]

\* Install the machine st as the next state after operation op(arg).
Commit(st, op, arg, newAdded) ==
  /\ head' = st.head
  /\ m_next' = st.m_next
  /\ m_allocated' = st.m_allocated
  /\ finalize' = st.finalize
  /\ live' = st.live
  /\ tj_log_atexit' = st.atexit
  /\ hooks' = st.hooks
  /\ finCount' = st.finCount
  /\ bufLive' = st.bufLive
  /\ added' = newAdded
  /\ nops' = IF phase = "running" THEN nops + 1 ELSE nops
  /\ phase' = IF st.crashed THEN "crashed"
              ELSE IF st.hung THEN "hung" ELSE phase
  /\ last' = [op |-> op, arg |-> arg, ret |-> Outcome(st),
              again |-> last.op = op /\ last.arg = arg /\ last.ret = "ok",
              finalized |-> st.finalized, fin |-> st.fin, freed |-> st.freed,
              logged |-> st.logged, reports |-> st.reports,
              entries |-> st.entries, bufCreated |-> st.bufCreated,
              bufFails |-> st.bufFails, bufReleased |-> st.bufReleased,
              result |-> st.result, ub |-> st.ub, pre |-> Pre(arg)]
  /\ UNCHANGED <<android, sink>>

Scribbles == [Heap -> BOOLEAN]

TornDown(ad) == [c \in Channels |-> IF ad[c] = "in" THEN "removed" ELSE ad[c]]

\* ------------------------------------------------------------------- Init
Init ==
  /\ android \in BOOLEAN
  /\ head = IF android THEN Logcat ELSE Console
  /\ m_next = [c \in Channels |-> IF android /\ c = Logcat THEN Console ELSE Null]
  /\ m_allocated = [c \in Channels |-> FALSE]
  /\ finalize = [c \in Channels |-> c = Console]
  /\ live = [c \in Heap |-> FALSE]
  /\ tj_log_atexit = FALSE
  /\ hooks = 0
  /\ phase = "running"
  /\ finCount = [c \in Channels |-> 0]
  /\ bufLive = 0
  /\ nops = 0
  /\ added = [c \in Channels |->
                IF c = Console \/ (android /\ c = Logcat) THEN "in" ELSE "none"]
  /\ last = [op |-> "init", arg |-> Null, ret |-> "ok",
             again |-> FALSE,
             finalized |-> <<>>, fin |-> <<>>, freed |-> <<>>,
             logged |-> <<>>, reports |-> 0, entries |-> 0,
             bufCreated |-> 0, bufFails |-> 0, bufReleased |-> 0,
             result |-> -1, ub |-> FALSE, pre |-> Pre(Null)]
  /\ sink = [data |-> FALSE, op |-> "none", in |-> NoArgs, out |-> <<>>]

\* ---------------------------------------------------------------- actions
\* The program is running and may make another call.
Running == phase = "running" /\ nops < MaxOps

\* x = tj_log_outchannel_create(data, log, finalize), malloc succeeding and
\* returning the address x; f: the finalize argument is not null
Create(x, f) ==
  /\ Running
  /\ x \in Heap /\ ~live[x]
  /\ Commit(outchannel_create(Machine, x, f, TRUE), "Create", x,
            [added EXCEPT ![x] = "never"])

\* tj_log_outchannel_create(data, log, finalize) with malloc failing
CreateFail(ok) ==
  /\ Running
  /\ \E strict \in BOOLEAN, f \in BOOLEAN :
       Commit(outchannel_create([Machine EXCEPT !.strict = strict], Null, f, ok),
              "CreateFail", Null, added)

\* tj_log_addOutChannel(c), for a channel the caller owns and that is not
\* registered
Add(c) ==
  /\ Running
  /\ added[c] \in {"never", "removed"}
  /\ c \in Heap => live[c]
  /\ tj_log_atexit \/ hooks < MaxHooks
  /\ Commit(addOutChannel(Machine, c), "Add", c, [added EXCEPT ![c] = "in"])

\* tj_log_removeOutChannel(c), c any channel pointer the caller has been given
Remove(c) ==
  /\ Running
  /\ c \in Heap /\ added[c] # "none"
  /\ \E strict \in BOOLEAN, s \in Scribbles :
       Commit(removeOutChannel([Machine EXCEPT !.strict = strict], c, s),
              "Remove", c,
              [added EXCEPT ![c] = IF @ = "in" THEN "removed" ELSE @])

\* tj_log_removePrintfChannel()
RemovePrintfChannel ==
  /\ Running
  /\ \E strict \in BOOLEAN, s \in Scribbles :
       Commit(removeOutChannel([Machine EXCEPT !.strict = strict], Console, s),
              "Remove", Console,
              [added EXCEPT ![Console] = IF @ = "in" THEN "removed" ELSE @])

\* tj_log_removeLogcatChannel(): removes the logcat channel in a build with
\* __ANDROID__, does nothing otherwise
RemoveLogcatChannel ==
  /\ Running
  /\ \E strict \in BOOLEAN, s \in Scribbles :
       IF android
       THEN Commit(removeOutChannel([Machine EXCEPT !.strict = strict], Logcat, s),
                   "Remove", Logcat,
                   [added EXCEPT ![Logcat] = IF @ = "in" THEN "removed" ELSE @])
       ELSE Commit(Machine, "RemoveLogcatNoop", Logcat, added)

\* a manual call of tj_log_finalize()
FullTeardown ==
  /\ Running
  /\ \E strict \in BOOLEAN, s \in Scribbles :
       Commit(tj_log_finalize([Machine EXCEPT !.strict = strict], s),
              "FullTeardown", Null, TornDown(added))

\* tj_log_log(level, ...) rendering msg; ok: tj_buffer_create succeeds
Log(level, msg, ok) ==
  /\ Running
  /\ \E strict \in BOOLEAN :
       Commit(tj_log_log([Machine EXCEPT !.strict = strict], level, msg, ok),
              "Log", Null, added)

\* exit(): the process starts running its atexit registrations
Exit ==
  /\ phase = "running"
  /\ phase' = "exiting"
  /\ last' = [op |-> "Exit", arg |-> Null, ret |-> "ok",
              again |-> FALSE,
              finalized |-> <<>>, fin |-> <<>>, freed |-> <<>>,
              logged |-> <<>>, reports |-> 0, entries |-> 0,
             bufCreated |-> 0, bufFails |-> 0, bufReleased |-> 0,
             result |-> -1, ub |-> FALSE, pre |-> Pre(Null)]
  /\ UNCHANGED <<android, head, m_next, m_allocated, finalize, live,
                 tj_log_atexit, hooks, finCount, bufLive, nops, added, sink>>

\* one atexit registration of tj_log_finalize runs
ExitHook ==
  /\ phase = "exiting"
  /\ hooks > 0
  /\ \E strict \in BOOLEAN, s \in Scribbles :
       Commit(tj_log_finalize([Machine EXCEPT !.strict = strict,
                                              !.hooks = hooks - 1], s),
              "ExitHook", Null, TornDown(added))

\* every registration has run: the process is gone
ExitDone ==
  /\ phase = "exiting"
  /\ hooks = 0
  /\ phase' = "exited"
  /\ UNCHANGED <<android, head, m_next, m_allocated, finalize, live,
                 tj_log_atexit, hooks, finCount, bufLive, nops, added, last,
                 sink>>

Next ==
  \/ \E x \in Heap, f \in BOOLEAN : Create(x, f)
  \/ \E ok \in BOOLEAN : CreateFail(ok)
  \/ \E c \in Channels : Add(c)
  \/ \E c \in Heap : Remove(c)
  \/ RemovePrintfChannel
  \/ RemoveLogcatChannel
  \/ FullTeardown
  \/ \E level \in Levels, msg \in Msgs, ok \in BOOLEAN : Log(level, msg, ok)
  \/ Exit
  \/ ExitHook
  \/ ExitDone

Spec == Init /\ [][Next]_vars

\* the built-in sink functions alone, called with every argument
SinkSpec == Init /\ [][SinkNext]_vars

\* ------------------------------------------------------------------ claims
Range(s) == {s[i] : i \in 1..Len(s)}

\* s without the occurrences of c
RECURSIVE Without(_, _)
Without(s, c) ==
  IF s = <<>> THEN <<>>
  ELSE IF Head(s) = c THEN Without(Tail(s), c)
  ELSE <<Head(s)>> \o Without(Tail(s), c)

Count(s, c) == Cardinality({i \in 1..Len(s) : s[i] = c})

ChainNow == Chain(head, m_next)
ChainBefore == Chain(last.pre.head, last.pre.m_next)
RegistryUnchanged ==
  /\ head = last.pre.head
  /\ m_next = last.pre.m_next
  /\ tj_log_atexit = last.pre.atexit
LoggedChannels == [i \in 1..Len(last.logged) |-> last.logged[i].ch]

\* C1: over any sequence of calls followed by process exit, the finalize
\* function of a channel is invoked at most once in total: not again by a
\* later Remove, FullTeardown or exit-time teardown.
C1_FinalizeAtMostOnce == \A c \in Channels : finCount[c] <= 1

\* C2: Remove(c) of a channel c that is in the chain unlinks it: afterwards c
\* is not reachable from head and the chain is the previous chain with c
\* deleted, whether c had a predecessor or was the first channel.
C2_RemoveUnlinks ==
  (last.op = "Remove" /\ last.ret = "ok" /\ last.pre.added = "in")
    => /\ last.arg \notin Range(ChainNow)
       /\ ChainNow = Without(ChainBefore, last.arg)

\* C3: after every Add and Remove the chain starting at head is acyclic and
\* ends in a null link: following m_next from head visits no channel twice.
C3_ChainAcyclic ==
  phase = "running" => \A c \in Channels : Count(ChainNow, c) <= 1

\* C4: a FullTeardown call calls Finalize exactly once on every channel that
\* is in the chain when it starts, frees each heap-owned one, and on return
\* head is null and the exit-armed flag is false.
C4_FullTeardownEmpties ==
  (last.op = "FullTeardown" /\ last.ret = "ok")
    => /\ \A c \in Range(ChainBefore) :
            /\ Count(last.finalized, c) = 1
            /\ c \in Heap => c \in Range(last.freed)
       /\ head = Null
       /\ ~tj_log_atexit

\* C5: a FullTeardown called directly after a FullTeardown finalizes nothing,
\* frees nothing and leaves the registry unchanged.
C5_FullTeardownIdempotent ==
  (last.op = "FullTeardown" /\ last.again)
    => /\ last.finalized = <<>>
       /\ last.freed = <<>>
       /\ RegistryUnchanged

\* C6: Remove(c) of a channel that was never added leaves head, every
\* next-link and the exit-armed flag unchanged, invokes no finalize function
\* and frees nothing.
C6_RemoveNeverAdded ==
  (last.op = "Remove" /\ last.pre.added = "never")
    => /\ RegistryUnchanged
       /\ last.fin = <<>>
       /\ last.freed = <<>>

\* C7: a second Remove(c) directly after a first Remove(c) invokes no
\* finalize function and leaves the registry unchanged, also for the built-in
\* console sink and when c was the first channel of the chain.
C7_RemoveTwice ==
  (last.op = "Remove" /\ last.again)
    => /\ last.fin = <<>>
       /\ RegistryUnchanged

C9_OneHookPending ==
  /\ hooks <= 1
  /\ (last.op = "Add" /\ last.ret = "ok")
       => /\ tj_log_atexit
          /\ hooks = last.pre.hooks + (IF last.pre.atexit THEN 0 ELSE 1)

\* C10: while the program runs, the exit-armed flag is true if and only if
\* an exit-time teardown is registered and has not fired.
C10_FlagIffHookPending ==
  phase = "running" => (tj_log_atexit <=> hooks > 0)

C12_CreateFailure ==
  last.op = "CreateFail"
    => /\ last.ret = "ok"
       /\ last.result = Null
       /\ RegistryUnchanged
       /\ last.finalized = <<>>
       /\ last.freed = <<>>
       /\ \A i \in 1..Len(last.logged) : last.logged[i].level = 3

\* C13: no operation frees a statically allocated channel, whose ownership
\* flag stays false; what is freed is a channel made by Create, and such a
\* channel is freed by the call that finalizes it.
C13_OnlyOwnedFreed ==
  /\ \A c \in Static : ~m_allocated[c] /\ c \notin Range(last.freed)
  /\ \A c \in Range(last.finalized) :
       (c \in Heap /\ last.pre.live[c]) => c \in Range(last.freed)

\* a teardown that finalized the console sink and freed a heap channel
C13_Witness ==
  /\ last.op = "FullTeardown" /\ last.ret = "ok"
  /\ Console \in Range(last.finalized)
  /\ \E c \in Heap : last.pre.live[c] /\ c \in Range(last.freed)

\* C16: when the process has exited, every channel of the chain has been
\* finalized by the exit-time teardown, also when Add was never called.
C16_ExitFinalizesChain ==
  phase = "exited"
    => /\ last.op = "ExitHook"
       /\ Range(ChainNow) \subseteq Range(last.finalized)

\* C17: Add(c) makes c the head with c's next-link the previous head, leaves
\* every other channel's next-link and finalize function as they were,
\* returns 0 and finalizes nothing.
C17_AddPushes ==
  last.op = "Add"
    => /\ last.ret = "ok"
       /\ last.result = 0
       /\ head = last.arg
       /\ m_next[last.arg] = last.pre.head
       /\ \A c \in Channels \ {last.arg} : m_next[c] = last.pre.m_next[c]
       /\ finalize = last.pre.finalize
       /\ m_allocated = last.pre.m_allocated
       /\ last.finalized = <<>>
       /\ last.freed = <<>>

\* an Add of a fresh heap channel onto a chain of two channels
C17_Witness ==
  /\ last.op = "Add" /\ last.arg \in Heap /\ last.pre.added = "never"
  /\ Len(ChainBefore) = 2
  /\ ChainNow = <<last.arg>> \o ChainBefore

\* C18: a Log call that has returned has released the Message Buffer it
\* created, once, and has released nothing when it created none; while no
\* call is running no Message Buffer is live.
C18_BufferReleased ==
  /\ phase \in {"running", "exiting", "exited"} => bufLive = 0
  /\ (last.op = "Log" /\ last.ret = "ok")
       => /\ last.bufReleased = last.bufCreated
          /\ last.bufCreated + last.bufFails = 1

\* a Log call that created a buffer, dispatched and returned
C18_Witness ==
  /\ last.op = "Log" /\ last.ret = "ok"
  /\ last.bufCreated = 1 /\ last.logged # <<>>

\* C19: in a build with the platform sink, a Log before any registry change
\* invokes the platform sink then the console sink; after
\* RemoveBuiltinPlatformSink the platform sink receives no message.
C19_PlatformSinkFirst ==
  android
    => /\ (last.op = "Log" /\ nops = 1 /\ last.bufCreated = 1)
            => LoggedChannels = <<Logcat, Console>>
       /\ (last.op = "Log" /\ added[Logcat] = "removed")
            => Logcat \notin Range(LoggedChannels)

\* C20: Log never invokes the log function of, nor reads the next-link of,
\* a channel that has been finalized or freed.
C20_LogSkipsFinalized ==
  last.op = "Log"
    => /\ ~last.ub
       /\ \A c \in Range(LoggedChannels) : added[c] # "removed"

\* C14: the console sink chooses the layout of its line from the level
\* alone: OUTPUT, timestamp and message with no component; CRITICAL, the
\* bracketed level label, timestamp, component, file:func:line and message;
\* VERBOSE, LOGIC and COMPONENT, timestamp, component and message.  The line
\* goes to the default stream when the data handle is unset, to the
\* handle's stream otherwise.
C14_ConsoleLayout ==
  sink.op = "fprintfLog"
    => LET a == sink.in
           w == sink.out[1]
       IN /\ w.to = <<"FILE", IF a.data THEN "data" ELSE "TJ_LOG_STREAM">>
          /\ a.level = TJ_LOG_LEVEL_OUTPUT
               => w.text = Date \o " " \o a.msg \o "\n"
          /\ a.level = TJ_LOG_LEVEL_CRITICAL
               => w.text = "[CRITICAL] " \o Date \o " " \o a.component \o " "
                           \o a.file \o ":" \o a.func \o ":"
                           \o ToString(a.line) \o ": " \o a.msg \o "\n"
          /\ a.level \in {0, 1, 2}
               => w.text = Date \o " " \o a.component \o " " \o a.msg \o "\n"

\* the console sink has written "[CRITICAL] <timestamp> net a.c:f:42: boom"
\* to the handle's stream
C14_Witness ==
  /\ sink.op = "fprintfLog"
  /\ sink.in.level = TJ_LOG_LEVEL_CRITICAL /\ sink.in.data
  /\ sink.in.component = "net" /\ sink.in.msg = "boom"
  /\ sink.out[1].text = "[CRITICAL] date net a.c:f:42: boom\n"
  /\ sink.out[1].to = <<"FILE", "data">>

\* C15: at every level a built-in sink (console, and logcat where present)
\* makes exactly one more output, after the message line, which carries the
\* rendered message of the error, when the error is not null, and no such
\* output when it is null.
C15_ErrorLine ==
  sink.op \in {"fprintfLog", "logcatLog"}
    => LET nl == IF sink.op = "fprintfLog" THEN "\n" ELSE ""
       IN IF sink.in.error = Null
          THEN Len(sink.out) = 1
          ELSE /\ Len(sink.out) = 2
               /\ sink.out[2].text = tj_error_getMessage(sink.in.error) \o nl
               /\ sink.out[2].to = sink.out[1].to

\* the logcat sink called at VERBOSE with the error whose message is "oops"
C15_Witness ==
  /\ sink.op = "logcatLog"
  /\ sink.in.error = 1 /\ sink.in.level = 0
  /\ sink.out[2].text = "oops"

====
